---- MODULE Spec2Model ----
(***************************************************************************)
(* Model of the rollup sequencer: the admission path of the JSON-RPC      *)
(* server (validator, state cache, transaction pool), the forced queue    *)
(* fed by the L1 listener, and the batch orchestrator with its engine.    *)
(*                                                                         *)
(* Every lock acquisition of the source is one atomic step; the awaits    *)
(* between them are the points where tasks interleave. A sendTransaction  *)
(* call, once its parameters decode, runs until it returns or panics.     *)
(* The server and the orchestrator hold the same TransactionPool and the  *)
(* same ForcedQueue, as main.rs shares them.                              *)
(*                                                                         *)
(* U256 and u64 are narrowed to U256_BITS and U64_BITS bits; gas limits   *)
(* are counted in small units against max_gas_limit.                      *)
(***************************************************************************)
EXTENDS Integers, Sequences, FiniteSets, TLC

\* ------------------------------------------------------------------ bounds
\* Width of the stand-in for ethers' U256 (256 bits in the source).
U256_BITS == 20
\* Width of the stand-in for u64.
U64_BITS == 6
\* BatchConfig.max_batch_size of the run.
max_batch_size == 2
\* BatchConfig.max_gas_limit of the run.
max_gas_limit == 3
\* Number of L1 events the listener delivers.
MaxForced == 3
\* Number of produce_batch calls of the orchestrator loop.
MaxRuns == 3

\* Highest nonce up to which the accounts of the state cache are followed.
MaxNonce == 3
\* BatchConfig.timeout_interval_ms of the run.
timeout_interval_ms == 200
\* The time, in ms since the loop started, up to which the run is followed.
MaxTime == 600

\* ------------------------------------------------------- program constants
\* orchestrator.rs start: the sleep of the loop, in ms.
PollInterval == 100
\* validator.rs: the fixed gas amount of the admission fee.
ADMISSION_GAS == 21000

U256_MAX == 2^U256_BITS - 1
U64_MAX == 2^U64_BITS - 1

\* ------------------------------------------------------------ input sets
Addrs == {"a1", "a2"}
\* Outcome of Signature::recover when it is not an address.
RecoverError == "err"
\* The sendTransaction calls of the run, one tokio task each.
Procs == {1, 2}
\* Option<U256>: None is <<>>, Some(x) is <<x>>.
None == <<>>
Some(x) == <<x>>
\* A gas price whose fee no longer fits the U256 stand-in.
OverflowPrice == (U256_MAX \div ADMISSION_GAS) + 1
Nonces == {0, 1}
\* Balance of an account funded through StateCache::update before the run.
FundedBalance == 3 * ADMISSION_GAS
PolicyTypes == {"Fcfs", "FeePriority", "TimeBoost", "FairBft"}
\* time_window_ms of SchedulingPolicyType::TimeBoost.
TimeWindow == 2

\* The client-chosen fields of the submitted transactions: a free one, a
\* paying one with an earlier timestamp and a bid, and one whose fee
\* overflows U256.
TxShapes ==
    { [value |-> 0, gas_price |-> 0, gas_limit |-> 1, timestamp |-> 2, boost_bid |-> None],
      [value |-> 0, gas_price |-> 1, gas_limit |-> 2, timestamp |-> 1, boost_bid |-> Some(1)],
      [value |-> 0, gas_price |-> OverflowPrice, gas_limit |-> 1, timestamp |-> 1, boost_bid |-> None] }

\* A shape for the transactions whose signature does not verify.
FreeShape == [value |-> 0, gas_price |-> 0, gas_limit |-> 1, timestamp |-> 2, boost_bid |-> None]

\* types.rs UserTransaction; signer is what signature.recover(hash) yields.
UserTx(f, n, sg, sh) ==
    [from |-> f, value |-> sh.value, nonce |-> n, gas_price |-> sh.gas_price,
     gas_limit |-> sh.gas_limit, signer |-> sg, timestamp |-> sh.timestamp,
     boost_bid |-> sh.boost_bid]

\* The submitted transactions: every shape signed by its sender, and a free
\* one whose signature recovers to nothing or to another address.
UserTransactions ==
    { UserTx(f, n, f, sh) : f \in Addrs, n \in Nonces, sh \in TxShapes }
    \cup { UserTx(f, n, sg, FreeShape) :
           f \in Addrs, n \in Nonces, sg \in {RecoverError} \cup Addrs }

\* types.rs ForcedTransaction.gas_limit of the forced transactions delivered
ForcedGasLimits == {1, 2}

\* types.rs Transaction: the tagged variant over user and forced transactions.
Normal(tx) == [kind |-> "Normal", tx |-> tx]
Forced(tx) == [kind |-> "Forced", tx |-> tx]

\* types.rs Transaction::gas_limit
gas_limit(t) == t.tx.gas_limit

\* ------------------------------------------------------------ state cache
\* An address absent from the HashMap.
Absent == [present |-> FALSE, balance |-> 0, nonce |-> 0]

\* cache.rs StateCache::get_or_init_account: stored account, or the default
\* (balance 0, nonce 0) without inserting.
get_or_init_account(accts, address) ==
    IF accts[address].present
    THEN accts[address]
    ELSE [present |-> TRUE, balance |-> 0, nonce |-> 0]

\* Mutant: the balance of a stored account is reset.
increment_nonce_ClearsBalance(accts, address) ==
    IF accts[address].present
    THEN [accts EXCEPT ![address].nonce = @ + 1, ![address].balance = 0]
    ELSE [accts EXCEPT ![address] = [present |-> TRUE, balance |-> 0, nonce |-> 1]]

\* Mutant: the nonce of a stored account advances by two.
increment_nonce_ByTwo(accts, address) ==
    IF accts[address].present
    THEN [accts EXCEPT ![address].nonce = @ + 2]
    ELSE [accts EXCEPT ![address] = [present |-> TRUE, balance |-> 0, nonce |-> 1]]

\* Mutant: a new account is inserted with nonce 0.
increment_nonce_InsertZero(accts, address) ==
    IF accts[address].present
    THEN [accts EXCEPT ![address].nonce = @ + 1]
    ELSE [accts EXCEPT ![address] = [present |-> TRUE, balance |-> 0, nonce |-> 0]]

\* cache.rs StateCache::increment_nonce
increment_nonce(accts, address) ==
    IF accts[address].present
    THEN [accts EXCEPT ![address].nonce = @ + 1]
    ELSE [accts EXCEPT ![address] = [present |-> TRUE, balance |-> 0, nonce |-> 1]]

\* cache.rs StateCache::update: the account of state.address is replaced.
update(accts, state) ==
    [accts EXCEPT ![state.address] =
        [present |-> TRUE, balance |-> state.balance, nonce |-> state.nonce]]

\* types.rs AccountState as get_or_init_account returns it for an address.
AccountState(accts, address) ==
    LET account == get_or_init_account(accts, address) IN
    [address |-> address, balance |-> account.balance, nonce |-> account.nonce]

\* -------------------------------------------------------------- validator
\* Result<(), ValidationError> as a tuple: <<"Ok">>, <<"InvalidSignature">>,
\* <<"InvalidNonce", expected, got>>, <<"InsufficientBalance", required,
\* available>>, and <<"Panic">> for an arithmetic-overflow panic of U256.
Ok == <<"Ok">>

\* validator.rs Validator::verify_signature
verify_signature(tx) ==
    IF tx.signer = RecoverError THEN <<"InvalidSignature">>
    ELSE IF tx.signer # tx.from THEN <<"InvalidSignature">>
    ELSE Ok

\* Mutant: a nonce below the stored one is let through.
check_nonce_AtMost(accts, tx) ==
    LET expected_nonce == get_or_init_account(accts, tx.from).nonce IN
    IF tx.nonce > expected_nonce
    THEN <<"InvalidNonce", expected_nonce, tx.nonce>>
    ELSE Ok

\* validator.rs Validator::check_nonce
check_nonce(accts, tx) ==
    LET expected_nonce == get_or_init_account(accts, tx.from).nonce IN
    IF tx.nonce # expected_nonce
    THEN <<"InvalidNonce", expected_nonce, tx.nonce>>
    ELSE Ok

\* validator.rs Validator::check_balance; U256 `*` and `+` panic on overflow.
check_balance(accts, tx) ==
    LET account == get_or_init_account(accts, tx.from)
        gas_cost == tx.gas_price * ADMISSION_GAS
        required == tx.value + gas_cost
    IN  IF gas_cost > U256_MAX THEN <<"Panic">>
        ELSE IF required > U256_MAX THEN <<"Panic">>
        ELSE IF account.balance < required
             THEN <<"InsufficientBalance", required, account.balance>>
             ELSE Ok

\* ------------------------------------------------------------ batch engine
\* u64::saturating_add
saturating_add(a, b) == IF a + b > U64_MAX THEN U64_MAX ELSE a + b

\* Iterator::sum over u64 gas limits: [ok, val]. An overflow panics when the
\* build checks overflow (checked) and wraps otherwise.
RECURSIVE sum_u64(_, _, _)
sum_u64(txs, acc, checked) ==
    IF txs = <<>> THEN [ok |-> TRUE, val |-> acc]
    ELSE LET s == acc + gas_limit(Head(txs)) IN
         IF s > U64_MAX /\ checked THEN [ok |-> FALSE, val |-> 0]
         ELSE sum_u64(Tail(txs), s % (U64_MAX + 1), checked)

\* Mutant: the gas of the transactions already taken is not counted.
can_add_transaction_CandidateOnly(current_txs, new_tx, checked) ==
    IF saturating_add(0, gas_limit(new_tx)) <= max_gas_limit THEN "yes" ELSE "no"

\* engine.rs BatchEngine::can_add_transaction: "yes", "no", or "panic" when
\* the sum over current_txs overflows in an overflow-checking build.
can_add_transaction(current_txs, new_tx, checked) ==
    LET current_gas == sum_u64(current_txs, 0, checked) IN
    IF ~current_gas.ok THEN "panic"
    ELSE IF saturating_add(current_gas.val, gas_limit(new_tx)) <= max_gas_limit
         THEN "yes" ELSE "no"

\* Mutant: the id counter is not advanced.
create_batch_next_id_Stuck(id) == id

\* engine.rs BatchEngine::create_batch: the counter after sealing.
create_batch_next_id(id) == id + 1

\* engine.rs BatchEngine::create_batch: the sealed batch.
create_batch(id, transactions) == [batch_id |-> id, transactions |-> transactions]

\* ------------------------------------------------------ scheduling policies
\* Ord::cmp as -1 (Less), 0 (Equal), 1 (Greater)
cmp(a, b) == IF a < b THEN -1 ELSE IF a = b THEN 0 ELSE 1

\* Option<U256>::unwrap_or_default
unwrap_or_default(b) == IF b = None THEN 0 ELSE b[1]

\* Mutant: the lowest gas price comes first.
FeePriority_cmp_Ascending(a, b) == cmp(a.gas_price, b.gas_price)

\* policies.rs FeePriorityPolicy: the sort_by comparator (gas_price descending)
FeePriority_cmp(a, b) == cmp(b.gas_price, a.gas_price)

\* Mutant: the bid is not compared.
TimeBoost_cmp_IgnoresBid(a, b) ==
    LET window_a == a.timestamp \div TimeWindow
        window_b == b.timestamp \div TimeWindow
    IN  IF cmp(window_a, window_b) # 0 THEN cmp(window_a, window_b)
        ELSE cmp(b.gas_price, a.gas_price)

\* policies.rs TimeBoostPolicy: the sort_by comparator
TimeBoost_cmp(a, b) ==
    LET window_a == a.timestamp \div TimeWindow
        window_b == b.timestamp \div TimeWindow
    IN  IF cmp(window_a, window_b) # 0 THEN cmp(window_a, window_b)
        ELSE LET boost_a == unwrap_or_default(a.boost_bid)
                 boost_b == unwrap_or_default(b.boost_bid)
             IN  IF cmp(boost_b, boost_a) # 0 THEN cmp(boost_b, boost_a)
                 ELSE cmp(b.gas_price, a.gas_price)

\* Mutant: the latest timestamp comes first.
FairBft_cmp_Descending(a, b) == cmp(b.timestamp, a.timestamp)

\* policies.rs FairBftPolicy: the sort_by comparator (timestamp ascending)
FairBft_cmp(a, b) == cmp(a.timestamp, b.timestamp)

\* The comparator of the policy create_policy builds for a policy type.
policy_cmp(policy_type, a, b) ==
    CASE policy_type = "FeePriority" -> FeePriority_cmp(a, b)
      [] policy_type = "TimeBoost" -> TimeBoost_cmp(a, b)
      [] policy_type = "FairBft" -> FairBft_cmp(a, b)
      [] OTHER -> 0

\* Mutant: x takes the place of an element it compares equal to.
RECURSIVE insert_stable_Replaces(_, _, _)
insert_stable_Replaces(policy_type, sorted, x) ==
    IF sorted = <<>> THEN <<x>>
    ELSE IF policy_cmp(policy_type, x, Head(sorted)) < 0
         THEN <<x>> \o sorted
         ELSE IF policy_cmp(policy_type, x, Head(sorted)) = 0
              THEN <<x>> \o Tail(sorted)
              ELSE <<Head(sorted)>> \o insert_stable_Replaces(policy_type, Tail(sorted), x)

\* Insert x behind every element of the sorted list that is not greater.
RECURSIVE insert_stable(_, _, _)
insert_stable(policy_type, sorted, x) ==
    IF sorted = <<>> THEN <<x>>
    ELSE IF policy_cmp(policy_type, x, Head(sorted)) < 0
         THEN <<x>> \o sorted
         ELSE <<Head(sorted)>> \o insert_stable(policy_type, Tail(sorted), x)

\* slice::sort_by, a stable sort: elements are inserted in input order.
RECURSIVE sort_by(_, _, _)
sort_by(policy_type, txs, sorted) ==
    IF txs = <<>> THEN sorted
    ELSE sort_by(policy_type, Tail(txs), insert_stable(policy_type, sorted, Head(txs)))

\* Mutant: the FCFS policy sorts by gas price.
order_transactions_FcfsSorts(policy_type, transactions) ==
    sort_by(IF policy_type = "Fcfs" THEN "FeePriority" ELSE policy_type,
            transactions, <<>>)

\* policies.rs SchedulingPolicy::order_transactions of the four policies
order_transactions(policy_type, transactions) ==
    IF policy_type = "Fcfs" THEN transactions
    ELSE sort_by(policy_type, transactions, <<>>)

\* Mutant: the ordered normal transactions are put in front.
schedule_NormalFirst(policy_type, forced, normal) ==
    LET ordered_normal == order_transactions(policy_type, normal) IN
    [i \in 1..Len(ordered_normal) |-> Normal(ordered_normal[i])]
        \o [i \in 1..Len(forced) |-> Forced(forced[i])]

\* scheduler.rs Scheduler::schedule
schedule(policy_type, forced, normal) ==
    LET ordered_normal == order_transactions(policy_type, normal) IN
    [i \in 1..Len(forced) |-> Forced(forced[i])]
        \o [i \in 1..Len(ordered_normal) |-> Normal(ordered_normal[i])]

\* ------------------------------------------------------------------ pools
\* Mutant: the transactions are taken from the back of the pool.
get_pending_FromBack(pool, max) ==
    LET n == IF max < Len(pool) THEN max ELSE Len(pool) IN
    SubSeq(pool, Len(pool) - n + 1, Len(pool))

\* tx_pool.rs TransactionPool::get_pending: the drained front
get_pending(pool, max) ==
    LET n == IF max < Len(pool) THEN max ELSE Len(pool) IN SubSeq(pool, 1, n)

\* tx_pool.rs TransactionPool::get_pending: what stays in the pool
get_pending_rest(pool, max) ==
    LET n == IF max < Len(pool) THEN max ELSE Len(pool) IN SubSeq(pool, n + 1, Len(pool))

\* usize::saturating_sub
saturating_sub(a, b) == IF a < b THEN 0 ELSE a - b

\* ------------------------------------------------------------ orchestrator
\* Mutant: the forced gate stops at the first transaction that does not fit.
RECURSIVE filter_forced_StopsAtMisfit(_, _, _)
filter_forced_StopsAtMisfit(forced_txs, accepted_forced_txs, checked) ==
    IF forced_txs = <<>> THEN [txs |-> accepted_forced_txs, panicked |-> FALSE]
    ELSE LET wrapped_tx == Forced(Head(forced_txs))
             fits == can_add_transaction(accepted_forced_txs, wrapped_tx, checked)
         IN  IF fits = "panic" THEN [txs |-> accepted_forced_txs, panicked |-> TRUE]
             ELSE IF fits = "no" THEN [txs |-> accepted_forced_txs, panicked |-> FALSE]
             ELSE filter_forced_StopsAtMisfit(Tail(forced_txs),
                                              Append(accepted_forced_txs, wrapped_tx),
                                              checked)

\* orchestrator.rs produce_batch, step 1a: the forced transactions are gated
\* one by one against those accepted so far; one that does not fit is skipped.
RECURSIVE filter_forced(_, _, _)
filter_forced(forced_txs, accepted_forced_txs, checked) ==
    IF forced_txs = <<>> THEN [txs |-> accepted_forced_txs, panicked |-> FALSE]
    ELSE LET wrapped_tx == Forced(Head(forced_txs))
             fits == can_add_transaction(accepted_forced_txs, wrapped_tx, checked)
         IN  IF fits = "panic" THEN [txs |-> accepted_forced_txs, panicked |-> TRUE]
             ELSE filter_forced(Tail(forced_txs),
                                IF fits = "yes"
                                THEN Append(accepted_forced_txs, wrapped_tx)
                                ELSE accepted_forced_txs,
                                checked)

\* Mutant: the accepted forced transactions leave the number unchanged.
max_normal_txs_Full(accepted_forced_txs) == max_batch_size

\* orchestrator.rs produce_batch: the number of normals asked from the pool
max_normal_txs(accepted_forced_txs) ==
    IF accepted_forced_txs = <<>> THEN max_batch_size
    ELSE saturating_sub(max_batch_size, Len(accepted_forced_txs))

\* Mutant: a normal that does not fit is skipped and the loop goes on.
RECURSIVE filter_normal_SkipMisfit(_, _, _, _)
filter_normal_SkipMisfit(normal_txs, combined_txs, accepted_normal_txs, checked) ==
    IF normal_txs = <<>> THEN [txs |-> accepted_normal_txs, panicked |-> FALSE]
    ELSE LET wrapped_tx == Normal(Head(normal_txs))
             fits == can_add_transaction(combined_txs, wrapped_tx, checked)
         IN  IF fits = "panic" THEN [txs |-> accepted_normal_txs, panicked |-> TRUE]
             ELSE IF fits = "yes"
                  THEN filter_normal_SkipMisfit(Tail(normal_txs),
                                                Append(combined_txs, wrapped_tx),
                                                Append(accepted_normal_txs, wrapped_tx),
                                                checked)
                  ELSE filter_normal_SkipMisfit(Tail(normal_txs), combined_txs,
                                                accepted_normal_txs, checked)

\* orchestrator.rs produce_batch, step 2a: normals are gated in pool order
\* against forced + accepted normals; the loop breaks at the first misfit.
RECURSIVE filter_normal(_, _, _, _)
filter_normal(normal_txs, combined_txs, accepted_normal_txs, checked) ==
    IF normal_txs = <<>> THEN [txs |-> accepted_normal_txs, panicked |-> FALSE]
    ELSE LET wrapped_tx == Normal(Head(normal_txs))
             fits == can_add_transaction(combined_txs, wrapped_tx, checked)
         IN  IF fits = "panic" THEN [txs |-> accepted_normal_txs, panicked |-> TRUE]
             ELSE IF fits = "yes"
                  THEN filter_normal(Tail(normal_txs), Append(combined_txs, wrapped_tx),
                                     Append(accepted_normal_txs, wrapped_tx), checked)
                  ELSE [txs |-> accepted_normal_txs, panicked |-> FALSE]

\* Mutant: the empty case is never taken.
nothing_accepted_Never(accepted_forced_txs, accepted_normal_txs) == FALSE

\* orchestrator.rs produce_batch: the test before `return Ok(None)`
nothing_accepted(accepted_forced_txs, accepted_normal_txs) ==
    accepted_forced_txs = <<>> /\ accepted_normal_txs = <<>>

\* Mutant: the normal transactions are put in front of the forced ones.
all_txs_NormalFirst(accepted_forced_txs, accepted_normal_txs) ==
    accepted_normal_txs \o accepted_forced_txs

\* orchestrator.rs produce_batch, step 3: forced first, then normal; the
\* scheduler held by the orchestrator is not called.
all_txs(accepted_forced_txs, accepted_normal_txs) ==
    accepted_forced_txs \o accepted_normal_txs

\* ------------------------------------------------------------------ state
VARIABLES
    accounts,         \* StateCache.accounts: address -> account, or Absent
    tx_pool,          \* TransactionPool.transactions
    forced_queue,     \* ForcedQueue.transactions
    next_batch_id,    \* BatchEngine.next_batch_id
    policy,           \* the SchedulingPolicyType the orchestrator was built with
    adm,              \* per sendTransaction call: position, transaction, confirmations
    orch,             \* the orchestrator task: position and accepted_forced_txs
    results,          \* per produce_batch call, in call order: None or Some(batch_id)
    last_batch,       \* the Batch sealed last, None before the first seal
    accepted_nonces,  \* per sender, the nonces confirmed Accepted, in order
    forced_added,     \* number of forced transactions the L1 listener added
    forced_sealed,    \* l1_tx_hash of the forced transactions in sealed batches
    clock,            \* Instant::now, the orchestrator loop's timer, the call times
    call              \* a function applied on its own: name, arguments, result

vars == <<accounts, tx_pool, forced_queue, next_batch_id, policy, adm, orch,
          results, last_batch, accepted_nonces, forced_added, forced_sealed, clock, call>>

\* A call that has not arrived yet.
IdleTask == [pc |-> "idle", tx |-> <<>>, confirmations |-> <<>>]

\* Positions of handle_send_transaction between two lock acquisitions.
InFlight == {"check_balance", "increment_nonce", "pool_add"}

\* Positions of a call that has ended: returned, or unwound by a panic.
Ended == {"returned", "panicked"}

\* SoftConfirmation.status
Accepted == <<"Accepted">>
Rejected(reason) == <<"Rejected", reason>>

\* server.rs handle_send_transaction: the call returns Ok(confirmation).
Return(status) == [pc |-> "returned", tx |-> <<>>, confirmations |-> <<status>>]

\* The task unwinds: the call ends and nothing is returned.
Unwind == [pc |-> "panicked", tx |-> <<>>, confirmations |-> <<>>]

\* The l1_tx_hash of the Forced entries of a transaction list.
ForcedIds(txs) == {txs[i].tx.l1_tx_hash : i \in {j \in 1..Len(txs) : txs[j].kind = "Forced"}}

\* main.rs / server.rs / orchestrator.rs construction: StateCache::new, one
\* account funded through StateCache::update (nonce 0) and one absent, empty
\* pools, BatchEngine::new (next_batch_id 1); the policy type is the
\* configuration's.
Components(policy_types) ==
    /\ accounts = [a \in Addrs |-> IF a = "a1"
                                   THEN [present |-> TRUE, balance |-> FundedBalance, nonce |-> 0]
                                   ELSE Absent]
    /\ tx_pool = <<>>
    /\ forced_queue = <<>>
    /\ next_batch_id = 1
    /\ policy \in policy_types
    /\ adm = [p \in Procs |-> IdleTask]
    /\ orch = [pc |-> "sleep", accepted_forced_txs |-> <<>>]
    /\ results = <<>>
    /\ last_batch = None
    /\ accepted_nonces = [a \in Addrs |-> <<>>]
    /\ forced_added = 0
    /\ forced_sealed = {}

\* orchestrator.rs start: last_batch_time = Instant::now() when the loop is
\* entered, the first sleep begins, no produce_batch call was made yet.
ClockStart == [now |-> 0, last_batch_time |-> 0, slept_since |-> 0, calls |-> <<>>]

\* No function is applied on its own.
NoCall == [fn |-> "none", args |-> <<>>, result |-> None]

InitWith(policy_types) ==
    /\ Components(policy_types)
    /\ clock = ClockStart
    /\ call = NoCall

Init == InitWith({"Fcfs"})

\* ------------------------------------------------------------- L1 listener
\* Mutant: the listener's transaction is put at the front of the queue.
AddForced_Front(gas) ==
    /\ forced_added < MaxForced
    /\ forced_added' = forced_added + 1
    /\ forced_queue' = <<[l1_tx_hash |-> forced_added + 1, gas_limit |-> gas]>>
                        \o forced_queue
    /\ UNCHANGED <<accounts, tx_pool, next_batch_id, policy, adm, orch,
                   results, last_batch, accepted_nonces, forced_sealed, clock, call>>

\* listener.rs handle_deposit_event / handle_forced_exit_event ->
\* forced_queue.rs ForcedQueue::add
AddForced(gas) ==
    /\ forced_added < MaxForced
    /\ forced_added' = forced_added + 1
    /\ forced_queue' = Append(forced_queue,
                              [l1_tx_hash |-> forced_added + 1, gas_limit |-> gas])
    /\ UNCHANGED <<accounts, tx_pool, next_batch_id, policy, adm, orch,
                   results, last_batch, accepted_nonces, forced_sealed, clock, call>>

\* --------------------------------------------------------------- admission
\* Mutant: the nonce is looked at before the signature.
Receive_NonceFirst(p, tx) ==
    /\ adm[p].pc = "idle"
    /\ \A q \in Procs : q < p => adm[q].pc # "idle"
    /\ LET sig == verify_signature(tx)
           non == check_nonce(accounts, tx)
       IN  adm' = [adm EXCEPT ![p] =
                     IF non # Ok THEN Return(Rejected(non))
                     ELSE IF sig # Ok THEN Return(Rejected(sig))
                     ELSE [pc |-> "check_balance", tx |-> <<tx>>, confirmations |-> <<>>]]
    /\ UNCHANGED <<accounts, tx_pool, forced_queue, next_batch_id, policy, orch,
                   results, last_batch, accepted_nonces, forced_added, forced_sealed, clock, call>>

\* server.rs handle_send_transaction up to the end of Validator::check_nonce:
\* verify_signature, then the nonce read under the cache's read lock. Calls
\* are numbered in arrival order.
Receive(p, tx) ==
    /\ adm[p].pc = "idle"
    /\ \A q \in Procs : q < p => adm[q].pc # "idle"
    /\ LET sig == verify_signature(tx)
           non == check_nonce(accounts, tx)
       IN  adm' = [adm EXCEPT ![p] =
                     IF sig # Ok THEN Return(Rejected(sig))
                     ELSE IF non # Ok THEN Return(Rejected(non))
                     ELSE [pc |-> "check_balance", tx |-> <<tx>>, confirmations |-> <<>>]]
    /\ UNCHANGED <<accounts, tx_pool, forced_queue, next_batch_id, policy, orch,
                   results, last_batch, accepted_nonces, forced_added, forced_sealed, clock, call>>

\* Mutant: the balance read inserts the default account it returns.
CheckBalance_Inserts(p) ==
    /\ adm[p].pc = "check_balance"
    /\ LET bal == check_balance(accounts, adm[p].tx[1]) IN
       adm' = [adm EXCEPT ![p] =
                 IF bal = <<"Panic">> THEN Unwind
                 ELSE IF bal # Ok THEN Return(Rejected(bal))
                 ELSE [@ EXCEPT !.pc = "increment_nonce"]]
    /\ accounts' = [accounts EXCEPT ![adm[p].tx[1].from] =
                                      get_or_init_account(accounts, adm[p].tx[1].from)]
    /\ UNCHANGED <<tx_pool, forced_queue, next_batch_id, policy, orch,
                   results, last_batch, accepted_nonces, forced_added, forced_sealed, clock, call>>

\* validator.rs Validator::check_balance, called from validate: a second read
\* of the cache; an overflow of the U256 arithmetic panics the task.
CheckBalance(p) ==
    /\ adm[p].pc = "check_balance"
    /\ LET bal == check_balance(accounts, adm[p].tx[1]) IN
       adm' = [adm EXCEPT ![p] =
                 IF bal = <<"Panic">> THEN Unwind
                 ELSE IF bal # Ok THEN Return(Rejected(bal))
                 ELSE [@ EXCEPT !.pc = "increment_nonce"]]
    /\ UNCHANGED <<accounts, tx_pool, forced_queue, next_batch_id, policy, orch,
                   results, last_batch, accepted_nonces, forced_added, forced_sealed, clock, call>>

\* server.rs handle_send_transaction step 3: state_cache.increment_nonce
IncrementNonce(p) ==
    /\ adm[p].pc = "increment_nonce"
    /\ accounts' = increment_nonce(accounts, adm[p].tx[1].from)
    /\ adm' = [adm EXCEPT ![p].pc = "pool_add"]
    /\ UNCHANGED <<tx_pool, forced_queue, next_batch_id, policy, orch,
                   results, last_batch, accepted_nonces, forced_added, forced_sealed, clock, call>>

\* server.rs handle_send_transaction steps 4 and 5: tx_pool.add, then the
\* Accepted confirmation is returned.
PoolAdd(p) ==
    /\ adm[p].pc = "pool_add"
    /\ tx_pool' = Append(tx_pool, adm[p].tx[1])
    /\ accepted_nonces' = [accepted_nonces EXCEPT
                             ![adm[p].tx[1].from] = Append(@, adm[p].tx[1].nonce)]
    /\ adm' = [adm EXCEPT ![p] = Return(Accepted)]
    /\ UNCHANGED <<accounts, forced_queue, next_batch_id, policy, orch, results,
                   last_batch, forced_added, forced_sealed, clock, call>>

\* ------------------------------------------------------------ orchestrator
\* orchestrator.rs produce_batch step 1 and 1a: forced_queue.get_all, then
\* the gas gate.
DrainForcedStep ==
    /\ orch.pc = "sleep"
    /\ Len(results) < MaxRuns
    /\ forced_queue' = <<>>
    /\ \E checked \in BOOLEAN :
          LET f == filter_forced(forced_queue, <<>>, checked) IN
          orch' = [pc |-> IF f.panicked THEN "panicked" ELSE "get_pending",
                   accepted_forced_txs |-> f.txs]
    /\ UNCHANGED <<accounts, tx_pool, next_batch_id, policy, adm,
                   results, last_batch, accepted_nonces, forced_added, forced_sealed, call>>

\* orchestrator.rs start: the timeout has expired on this poll tick, at a
\* time that is left open, and produce_batch is called.
DrainForced == DrainForcedStep /\ UNCHANGED clock

\* orchestrator.rs produce_batch steps 2 to 4: tx_pool.get_pending, the gas
\* gate over the drained normals, then None or engine.create_batch.
DrainPoolAndSealStep ==
    /\ orch.pc = "get_pending"
    /\ LET accepted_forced_txs == orch.accepted_forced_txs
           max == max_normal_txs(accepted_forced_txs)
       IN  /\ tx_pool' = get_pending_rest(tx_pool, max)
           /\ \E checked \in BOOLEAN :
                LET n == filter_normal(get_pending(tx_pool, max), accepted_forced_txs,
                                       <<>>, checked)
                IN  IF n.panicked
                    THEN /\ orch' = [pc |-> "panicked", accepted_forced_txs |-> <<>>]
                         /\ UNCHANGED <<results, last_batch, next_batch_id, forced_sealed>>
                    ELSE /\ orch' = [pc |-> "sleep", accepted_forced_txs |-> <<>>]
                         /\ IF nothing_accepted(accepted_forced_txs, n.txs)
                            THEN /\ results' = Append(results, None)
                                 /\ UNCHANGED <<last_batch, next_batch_id, forced_sealed>>
                            ELSE LET batch == create_batch(next_batch_id,
                                                  all_txs(accepted_forced_txs, n.txs))
                                 IN  /\ results' = Append(results, Some(batch.batch_id))
                                     /\ last_batch' = Some(batch)
                                     /\ forced_sealed' = forced_sealed
                                                         \cup ForcedIds(batch.transactions)
                                     /\ next_batch_id' = create_batch_next_id(next_batch_id)
    /\ UNCHANGED <<accounts, forced_queue, policy, adm, accepted_nonces, forced_added,
                   call>>

\* orchestrator.rs start: produce_batch returns to the loop, at a time that
\* is left open.
DrainPoolAndSeal == DrainPoolAndSealStep /\ UNCHANGED clock

Next ==
    \/ \E gas \in ForcedGasLimits : AddForced(gas)
    \/ \E p \in Procs, tx \in UserTransactions : Receive(p, tx)
    \/ \E p \in Procs : CheckBalance(p)
    \/ \E p \in Procs : IncrementNonce(p)
    \/ \E p \in Procs : PoolAdd(p)
    \/ DrainForced
    \/ DrainPoolAndSeal

Spec == Init /\ [][Next]_vars

\* The same system for every policy type the configuration can select.
InitAnyPolicy == InitWith(PolicyTypes)

SpecAnyPolicy == InitAnyPolicy /\ [][Next]_vars

\* The sender of tx has no call between its nonce check and its return.
NoOverlap(tx) ==
    \A q \in Procs : adm[q].pc \in InFlight => adm[q].tx[1].from # tx.from

\* A call that arrives when no other call of its sender is in progress.
ReceiveSerial(p, tx) == adm[p].pc = "idle" /\ NoOverlap(tx) /\ Receive(p, tx)

NextSerial ==
    \/ \E gas \in ForcedGasLimits : AddForced(gas)
    \/ \E p \in Procs, tx \in UserTransactions : ReceiveSerial(p, tx)
    \/ \E p \in Procs : CheckBalance(p)
    \/ \E p \in Procs : IncrementNonce(p)
    \/ \E p \in Procs : PoolAdd(p)
    \/ DrainForced
    \/ DrainPoolAndSeal

\* The system when each sender's calls are processed one after another.
SerialSpec == Init /\ [][NextSerial]_vars

\* Submitted transactions over the gas limits a client can choose: free
\* ones, signed by their sender, that fit a batch, exceed max_gas_limit by
\* one, or carry the largest u64.
AnyGasTransactions ==
    { UserTx(f, n, f, [FreeShape EXCEPT !.gas_limit = g]) :
      f \in Addrs, n \in Nonces, g \in {1, max_gas_limit + 1, U64_MAX} }

NextAnyGas ==
    \/ \E gas \in ForcedGasLimits : AddForced(gas)
    \/ \E p \in Procs, tx \in AnyGasTransactions : ReceiveSerial(p, tx)
    \/ \E p \in Procs : CheckBalance(p)
    \/ \E p \in Procs : IncrementNonce(p)
    \/ \E p \in Procs : PoolAdd(p)
    \/ DrainForced
    \/ DrainPoolAndSeal

\* The system when clients choose the gas limit freely.
AnyGasSpec == Init /\ [][NextAnyGas]_vars

\* ------------------------------------------------------------- properties
\* orchestrator.rs produce_batch: total_gas, the sum of gas_limit over all_txs
RECURSIVE total_gas(_)
total_gas(txs) ==
    IF txs = <<>> THEN 0 ELSE gas_limit(Head(txs)) + total_gas(Tail(txs))

\* The transactions of the batch sealed last.
SealedTxs == last_batch[1].transactions

\* The entries of a transaction list of one kind, unwrapped, in list order.
OfKind(txs, kind) ==
    LET sel == SelectSeq(txs, LAMBDA t : t.kind = kind) IN
    [i \in 1..Len(sel) |-> sel[i].tx]

\* The batch ids of the produce_batch calls that sealed, in sealing order.
SealedIds == SelectSeq(results, LAMBDA r : r # None)

\* The l1_tx_hash of the transactions waiting in the forced queue.
QueuedIds == {forced_queue[i].l1_tx_hash : i \in 1..Len(forced_queue)}

\* The calls of a sender that incremented the nonce and have not returned.
Incremented(a) == {p \in Procs : adm[p].pc = "pool_add" /\ adm[p].tx[1].from = a}

\* C1: in every batch sealed by produce_batch, the sum of gas_limit over the
\* batch's transactions is at most max_gas_limit.
C1_BatchGasWithinLimit ==
    last_batch # None => total_gas(SealedTxs) <= max_gas_limit

\* A batch of a forced and a normal transaction that fills the gas limit.
C1_Witness ==
    /\ last_batch # None
    /\ total_gas(SealedTxs) = max_gas_limit
    /\ OfKind(SealedTxs, "Forced") # <<>>
    /\ OfKind(SealedTxs, "Normal") # <<>>

\* C2: every batch sealed by produce_batch holds at most max_batch_size
\* transactions (forced plus normal), however many forced transactions wait
\* in the forced queue.
C2_BatchSizeWithinLimit ==
    last_batch # None => Len(SealedTxs) <= max_batch_size

\* C3: of the admissions of one sender that carry the same nonce and run
\* concurrently, at most one is Accepted and enters the pool: no sender has
\* two Accepted admissions with the same nonce.
C3_OneAcceptedPerNonce ==
    \A a \in Addrs : \A i, j \in 1..Len(accepted_nonces[a]) :
        i # j => accepted_nonces[a][i] # accepted_nonces[a][j]

\* C4: after any interleaving of admissions and batch seals, every sender's
\* nonce in the state cache (0 for an absent account) is the number of its
\* admissions that returned Accepted; while a call is between its increment
\* and its return, the nonce is ahead by that call.
C4_NonceCountsAccepted ==
    \A a \in Addrs :
        get_or_init_account(accounts, a).nonce
            = Len(accepted_nonces[a]) + Cardinality(Incremented(a))

\* Two admissions of the absent sender have returned Accepted around a seal.
C4_Witness ==
    /\ \A p \in Procs : adm[p].pc = "returned"
    /\ Len(accepted_nonces["a2"]) = 2
    /\ accounts["a2"].nonce = 2
    /\ last_batch # None
    /\ tx_pool # <<>>

\* C5: no forced transaction is removed from the forced queue without
\* appearing in a sealed batch: every forced transaction added so far waits
\* in the queue, is held by the running produce_batch call for its batch, or
\* is in a sealed batch.
C5_ForcedNeverDropped ==
    \A id \in 1..forced_added :
        id \in QueuedIds \cup ForcedIds(orch.accepted_forced_txs) \cup forced_sealed

\* C6: the ids of the sealed batches, in sealing order, are 1, 2, 3, ...
\* whatever produce_batch calls returned None in between.
C6_BatchIdsContiguous ==
    \A i \in 1..Len(SealedIds) : SealedIds[i] = Some(i)

\* Two seals with a produce_batch call that returned None between them.
C6_Witness == results = <<Some(1), None, Some(2)>>

\* C7: in every sealed batch every Forced transaction is at a lower index
\* than every Normal transaction.
C7_ForcedBeforeNormal ==
    last_batch # None =>
        \A i, j \in 1..Len(SealedTxs) :
            SealedTxs[i].kind = "Forced" /\ SealedTxs[j].kind = "Normal" => i < j

\* A batch of a forced and a normal transaction.
C7_Witness ==
    /\ last_batch # None
    /\ Len(SealedTxs) > 1
    /\ SealedTxs[1].kind = "Forced"
    /\ SealedTxs[Len(SealedTxs)].kind = "Normal"

\* C8: every sealed batch is what the scheduler of the selected policy makes
\* of its forced and normal transactions: the Normal transactions are in the
\* order the policy gives them, for each of the four policies.
C8_NormalsInPolicyOrder ==
    last_batch # None =>
        SealedTxs = schedule(policy, OfKind(SealedTxs, "Forced"),
                             OfKind(SealedTxs, "Normal"))

\* The nonce check of a call whose signature verifies: a nonce that differs
\* from the stored one ends the call with InvalidNonce{expected, got}.
C9_RejectedStep ==
    \A p \in Procs :
        (adm[p].pc = "idle" /\ adm'[p].pc # "idle") =>
            \A tx \in UserTransactions :
                LET stored == get_or_init_account(accounts, tx.from).nonce IN
                (verify_signature(tx) = Ok /\ tx.nonce # stored /\ Receive(p, tx))
                    => adm'[p] = Return(Rejected(<<"InvalidNonce", stored, tx.nonce>>))

\* The accepted nonces of every sender are 0, 1, 2, ... in acceptance order.
C9_AcceptedInSequence ==
    \A a \in Addrs : \A i \in 1..Len(accepted_nonces[a]) :
        accepted_nonces[a][i] = i - 1

\* C9: when the admissions of a sender are processed one after another, the
\* nonces of its accepted transactions are 0, 1, 2, ... in acceptance order,
\* and a submission of the sender whose nonce differs from the stored nonce
\* is Rejected with InvalidNonce{expected = stored nonce, got = tx.nonce}.
C9_SerialNonces == [](C9_AcceptedInSequence) /\ [][C9_RejectedStep]_vars

\* A sender's admissions with nonces 0 and 1 were accepted one after another.
C9_Witness ==
    /\ accepted_nonces["a1"] = <<0, 1>>
    /\ \A p \in Procs : adm[p].confirmations = <<Accepted>>

\* C10: every admission call that decoded a UserTransaction and ended has
\* returned exactly one SoftConfirmation, Accepted or Rejected; none ended by
\* a panic without a confirmation.
C10_EveryCallConfirmed ==
    \A p \in Procs :
        adm[p].pc \in Ended =>
            /\ adm[p].pc = "returned"
            /\ Len(adm[p].confirmations) = 1
            /\ adm[p].confirmations[1][1] \in {"Accepted", "Rejected"}

\* The call's confirmation is Rejected.
IsRejected(task) ==
    task.pc = "returned" /\ task.confirmations[1][1] = "Rejected"

\* A step of a call that ends it Rejected, or one before validation passed.
C11_Step ==
    \A p \in Procs :
        (adm'[p] # adm[p] /\ (IsRejected(adm'[p]) \/ adm'[p].pc = "check_balance")) =>
            /\ adm[p].pc \in {"idle", "check_balance"}
            /\ accounts' = accounts
            /\ tx_pool' = tx_pool

\* C11: an admission that ends Rejected changes nothing: a call reaches
\* Rejected only through steps that leave the state cache (no account
\* inserted, no nonce changed) and the transaction pool as they were.
C11_RejectedChangesNothing == [][C11_Step]_vars

\* A call of the absent sender was Rejected for its balance: the sender is
\* still absent and the pool is still empty.
C11_Witness ==
    /\ adm[1] = Return(Rejected(<<"InsufficientBalance", ADMISSION_GAS, 0>>))
    /\ ~accounts["a2"].present
    /\ tx_pool = <<>>

\* The steps of a call on its way to Accepted, and the growth of the pool.
C12_Step ==
    /\ \A p \in Procs :
          /\ (adm'[p] # adm[p] /\ adm[p].pc = "increment_nonce") =>
                LET from == adm[p].tx[1].from IN
                /\ adm'[p].pc = "pool_add"
                /\ get_or_init_account(accounts', from).nonce
                       = get_or_init_account(accounts, from).nonce + 1
                /\ \A a \in Addrs \ {from} : accounts'[a] = accounts[a]
                /\ tx_pool' = tx_pool
          /\ (adm'[p] # adm[p] /\ adm'[p].pc = "pool_add") =>
                adm[p].pc = "increment_nonce"
          /\ (adm'[p] # adm[p] /\ adm'[p] = Return(Accepted)) =>
                /\ adm[p].pc = "pool_add"
                /\ tx_pool' = Append(tx_pool, adm[p].tx[1])
                /\ accounts' = accounts
    /\ Len(tx_pool') > Len(tx_pool) =>
          \E p \in Procs : adm'[p] # adm[p] /\ adm'[p] = Return(Accepted)

\* C12: an admission that ends Accepted increments the sender's nonce by
\* exactly 1 and then appends its transaction to the pool exactly once; the
\* pool grows by nothing else, so no Rejected transaction is ever in it.
C12_AcceptedIncrementsThenPushes == [][C12_Step]_vars

\* A call of the absent sender was Accepted: nonce 1, its transaction pooled.
C12_Witness ==
    /\ adm[1] = Return(Accepted)
    /\ accounts["a2"].present /\ accounts["a2"].nonce = 1
    /\ Len(tx_pool) = 1 /\ tx_pool[1].from = "a2"

\* The outcome of the signature and nonce steps for every transaction a call
\* can carry, and the place of the balance step behind them.
C13_Step ==
    \A p \in Procs :
        /\ (adm[p].pc = "idle" /\ adm'[p].pc # "idle") =>
              \A tx \in UserTransactions :
                  LET stored == get_or_init_account(accounts, tx.from).nonce
                      bad_signature == tx.signer # tx.from
                  IN  Receive(p, tx) =>
                        /\ bad_signature =>
                              adm'[p] = Return(Rejected(<<"InvalidSignature">>))
                        /\ (~bad_signature /\ tx.nonce # stored) =>
                              adm'[p] = Return(Rejected(<<"InvalidNonce", stored, tx.nonce>>))
                        /\ (~bad_signature /\ tx.nonce = stored) =>
                              adm'[p].pc = "check_balance" /\ adm'[p].tx = <<tx>>
        /\ (adm[p].pc = "check_balance" /\ IsRejected(adm'[p])) =>
              adm'[p].confirmations[1][2][1] = "InsufficientBalance"

\* C13: validate runs signature, then nonce, then balance, and returns the
\* error of the first step that fails: a bad signature yields
\* InvalidSignature whatever the nonce, a good signature with a wrong nonce
\* yields InvalidNonce whatever the balance.
C13_FirstFailureWins == [][C13_Step]_vars

\* One call was Rejected for its signature, one for its nonce.
C13_Witness ==
    /\ adm[1] = Return(Rejected(<<"InvalidSignature">>))
    /\ adm[2] = Return(Rejected(<<"InvalidNonce", 0, 1>>))

\* ------------------------------------------------- single function calls
\* The system in which one function of the source is called once on given
\* arguments: call holds the function's name, its arguments and, once the
\* call has ended, its result. The other components stay as constructed.
OtherComponents == <<accounts, tx_pool, forced_queue, next_batch_id, policy, adm, orch,
                     results, last_batch, accepted_nonces, forced_added,
                     forced_sealed, clock>>

\* Balances of the stored account of the sender.
BalanceSamples == {0, ADMISSION_GAS, U256_MAX}

\* The state cache of a check_balance call: the sender stored or absent.
BalanceCaches ==
    { [a \in Addrs |-> IF a = "a1" THEN acct ELSE Absent] :
      acct \in {Absent} \cup { [present |-> TRUE, balance |-> b, nonce |-> 0] :
                               b \in BalanceSamples } }

\* The client-chosen fields of the transactions of a check_balance call:
\* values and gas prices up to the largest U256, two gas limits.
BalanceShapes ==
    [value : {0, 1, U256_MAX},
     gas_price : {0, 1, OverflowPrice - 1, OverflowPrice},
     gas_limit : {1, U64_MAX},
     timestamp : {1},
     boost_bid : {None}]

CheckBalanceCalls ==
    { [fn |-> "check_balance", args |-> <<accts, UserTx("a1", 0, "a1", sh)>>, result |-> None] :
      accts \in BalanceCaches, sh \in BalanceShapes }

\* validator.rs Validator::check_balance is called and ends.
ApplyCheckBalance ==
    /\ call.fn = "check_balance"
    /\ call.result = None
    /\ call' = [call EXCEPT !.result = Some(check_balance(call.args[1], call.args[2]))]
    /\ UNCHANGED OtherComponents

\* The fields of a transaction as the client chooses them.
WireFields ==
    [from : Addrs, to : Addrs, value : {0, 1}, nonce : Nonces, gas_price : {0, 1},
     gas_limit : {1}, timestamp : {1, 2}, boost_bid : {None, Some(0), Some(1)}]

\* The fields UserTransaction::hash reads.
HashedFields == {"from", "to", "value", "nonce", "gas_price", "timestamp", "boost_bid"}

\* types.rs UserTransaction::hash: Keccak256 over the fixed-width encodings
\* of the fields, taken as collision-free; boost_bid is encoded as 32 bytes
\* that stay zero when it is None.
hash(tx) ==
    LET boost_bid_bytes == IF tx.boost_bid # None THEN tx.boost_bid[1] ELSE 0 IN
    <<tx.from, tx.to, tx.value, tx.nonce, tx.gas_price, tx.timestamp, boost_bid_bytes>>

\* Result of Signature::recover on a hash the signature was not made over:
\* an address that is nobody's.
Unrelated == "unrelated"

\* validator.rs verify_signature: tx.signature.recover(tx_hash). A signature
\* is a key, named by its address, and the message it was made over.
recover(signature, tx_hash) ==
    IF hash(signature.message) = tx_hash THEN signature.key ELSE Unrelated

\* The UserTransaction a call decodes from the fields sent and the signature.
Decoded(sent, signature) ==
    [from |-> sent.from, to |-> sent.to, value |-> sent.value, nonce |-> sent.nonce,
     gas_price |-> sent.gas_price, gas_limit |-> sent.gas_limit,
     signature |-> signature, timestamp |-> sent.timestamp,
     boost_bid |-> sent.boost_bid,
     signer |-> recover(signature, hash(sent))]

\* The fields sent for a transaction that was signed: as signed, or with one
\* of the hashed fields changed.
SentFor(signed) ==
    { t \in WireFields : Cardinality({f \in HashedFields : t[f] # signed[f]}) <= 1 }

\* A transaction signed by a key and sent under that signature.
VerifySignatureCalls ==
    UNION { { [fn |-> "verify_signature",
               args |-> <<Decoded(sent, [key |-> key, message |-> signed])>>,
               result |-> None] : key \in Addrs, sent \in SentFor(signed) } :
            signed \in WireFields }

\* validator.rs Validator::verify_signature is called and ends.
ApplyVerifySignature ==
    /\ call.fn = "verify_signature"
    /\ call.result = None
    /\ call' = [call EXCEPT !.result = Some(verify_signature(call.args[1]))]
    /\ UNCHANGED OtherComponents

\* Gas limits of the transactions of a can_add_transaction call, up to the
\* largest u64.
GasSamples == {0, 1, 2, U64_MAX}

\* Transaction lists of up to two transactions with these gas limits.
GasLists ==
    {<<>>} \cup { <<Forced([l1_tx_hash |-> 1, gas_limit |-> g])>> : g \in GasSamples }
           \cup { <<Forced([l1_tx_hash |-> 1, gas_limit |-> g]),
                    Forced([l1_tx_hash |-> 2, gas_limit |-> h])>> : g, h \in GasSamples }

\* current_txs, new_tx, and whether the build checks integer overflow.
CanAddCalls ==
    { [fn |-> "can_add_transaction",
       args |-> <<current_txs, Forced([l1_tx_hash |-> 3, gas_limit |-> g]), checked>>,
       result |-> None] :
      current_txs \in GasLists, g \in GasSamples, checked \in BOOLEAN }

\* engine.rs BatchEngine::can_add_transaction is called and ends.
ApplyCanAdd ==
    /\ call.fn = "can_add_transaction"
    /\ call.result = None
    /\ call' = [call EXCEPT !.result =
                   Some(can_add_transaction(call.args[1], call.args[2], call.args[3]))]
    /\ UNCHANGED OtherComponents

\* The normal transactions drained from the pool: up to three, in pool
\* order, each with a gas limit that may be as large as u64 allows.
DrainedGas == {1, 2, U64_MAX}
DrainedNormals ==
    LET tx(i, g) == [nonce |-> i, gas_limit |-> g] IN
    {<<>>} \cup { <<tx(1, g)>> : g \in DrainedGas }
           \cup { <<tx(1, g), tx(2, h)>> : g, h \in DrainedGas }
           \cup { <<tx(1, g), tx(2, h), tx(3, k)>> : g, h, k \in DrainedGas }

\* The forced transactions produce_batch accepted before it drains the pool:
\* what step 1a leaves of a forced queue.
AcceptedForced ==
    { filter_forced(q, <<>>, TRUE).txs :
      q \in {<<>>} \cup { <<[l1_tx_hash |-> 1, gas_limit |-> g]>> : g \in ForcedGasLimits }
                   \cup { <<[l1_tx_hash |-> 1, gas_limit |-> g],
                            [l1_tx_hash |-> 2, gas_limit |-> h]>> : g, h \in ForcedGasLimits } }

\* normal_txs, accepted_forced_txs, and whether the build checks overflow.
FilterNormalCalls ==
    { [fn |-> "filter_normal", args |-> <<normal_txs, accepted_forced_txs, checked>>,
       result |-> None] :
      normal_txs \in DrainedNormals, accepted_forced_txs \in AcceptedForced,
      checked \in BOOLEAN }

\* orchestrator.rs produce_batch step 2a runs over the drained normals.
ApplyFilterNormal ==
    /\ call.fn = "filter_normal"
    /\ call.result = None
    /\ call' = [call EXCEPT !.result =
                   Some(filter_normal(call.args[1], call.args[2], <<>>, call.args[3]))]
    /\ UNCHANGED OtherComponents

\* The pool and the number of transactions asked from it, up to the
\* largest count.
GetPendingCalls ==
    { [fn |-> "get_pending", args |-> <<pool, max>>, result |-> None] :
      pool \in DrainedNormals, max \in {0, 1, 2, 3, U64_MAX} }

\* tx_pool.rs TransactionPool::get_pending is called and ends: what it
\* returned and what it left in the pool.
ApplyGetPending ==
    /\ call.fn = "get_pending"
    /\ call.result = None
    /\ call' = [call EXCEPT !.result =
                   Some([returned |-> get_pending(call.args[1], call.args[2]),
                         transactions |-> get_pending_rest(call.args[1], call.args[2])])]
    /\ UNCHANGED OtherComponents

\* The fields of a user transaction the policies read; nonce numbers the
\* transactions of a list in input order.
OrderedTx(i) ==
    [nonce : {i}, gas_price : {1, 2}, timestamp : {1, 2, 4},
     boost_bid : {None, Some(0), Some(1)}]

\* The lists of up to max such transactions.
OrderedLists(max) ==
    {<<>>} \cup { <<a>> : a \in OrderedTx(1) }
           \cup { <<a, b>> : a \in OrderedTx(1), b \in OrderedTx(2) }
           \cup (IF max < 3 THEN {}
                 ELSE { <<a, b, c>> : a \in OrderedTx(1), b \in OrderedTx(2),
                                      c \in OrderedTx(3) })

\* Lists of forced transactions, in and against the order of their hashes.
ForcedLists ==
    LET f(i) == [l1_tx_hash |-> i, gas_limit |-> 1] IN
    {<<>>, <<f(1)>>, <<f(2)>>, <<f(1), f(2)>>, <<f(2), f(1)>>}

\* A scheduler built over each policy type is given forced and normal lists.
ScheduleCalls ==
    { [fn |-> "schedule", args |-> <<policy_type, forced, normal>>, result |-> None] :
      policy_type \in PolicyTypes, forced \in ForcedLists, normal \in OrderedLists(2) }

\* scheduler.rs Scheduler::schedule is called and ends.
ApplySchedule ==
    /\ call.fn = "schedule"
    /\ call.result = None
    /\ call' = [call EXCEPT !.result =
                   Some(schedule(call.args[1], call.args[2], call.args[3]))]
    /\ UNCHANGED OtherComponents

\* The policy of each policy type is given a transaction list.
OrderCalls ==
    { [fn |-> "order_transactions", args |-> <<policy_type, transactions>>,
       result |-> None] :
      policy_type \in PolicyTypes, transactions \in OrderedLists(3) }

\* policies.rs SchedulingPolicy::order_transactions is called and ends.
ApplyOrderTransactions ==
    /\ call.fn = "order_transactions"
    /\ call.result = None
    /\ call' = [call EXCEPT !.result =
                   Some(order_transactions(call.args[1], call.args[2]))]
    /\ UNCHANGED OtherComponents

\* An Arc<TransactionPool> or Arc<ForcedQueue> is known by the place whose
\* new() allocated it: clones of one Arc are the same instance.
\* main.rs main: the pool and the forced queue main allocates.
main_tx_pool == "TransactionPool::new in main"
main_forced_queue == "ForcedQueue::new in main"

\* server.rs Server::new: the AppState of the server. Its pool is allocated
\* inside the constructor, which takes no pool from its caller.
Server_new(state_cache) ==
    [tx_pool |-> "TransactionPool::new in Server::new",
     state_cache |-> state_cache]

\* orchestrator.rs BatchOrchestrator::new: the orchestrator keeps the Arcs its
\* caller hands it.
BatchOrchestrator_new(queue, pool) ==
    [forced_queue |-> queue, tx_pool |-> pool]

\* The start-up of the components over the contents of the state cache.
StartupCalls ==
    { [fn |-> "startup", args |-> <<cache>>, result |-> None] :
      cache \in BalanceCaches }

\* main.rs main builds the server from the state cache, and the orchestrator
\* is built over the Arcs main holds: the components and their instances.
ApplyStartup ==
    /\ call.fn = "startup"
    /\ call.result = None
    /\ call' = [call EXCEPT !.result =
                   Some([server |-> Server_new(call.args[1]),
                         orchestrator |-> BatchOrchestrator_new(main_forced_queue,
                                                                main_tx_pool)])]
    /\ UNCHANGED OtherComponents

CallInit ==
    /\ Components({"Fcfs"})
    /\ clock = ClockStart
    /\ call \in CheckBalanceCalls \cup VerifySignatureCalls \cup CanAddCalls
                \cup FilterNormalCalls \cup GetPendingCalls \cup ScheduleCalls
                \cup OrderCalls \cup StartupCalls

CallNext ==
    \/ ApplyCheckBalance
    \/ ApplyVerifySignature
    \/ ApplyCanAdd
    \/ ApplyFilterNormal
    \/ ApplyGetPending
    \/ ApplySchedule
    \/ ApplyOrderTransactions
    \/ ApplyStartup

CallSpec == CallInit /\ [][CallNext]_vars

\* A check_balance call that has ended.
BalanceChecked == call.fn = "check_balance" /\ call.result # None

\* The fee and the required amount of the transaction of the call, as
\* unbounded integers.
FeeOf(tx) == tx.gas_price * ADMISSION_GAS
RequiredOf(tx) == tx.value + FeeOf(tx)

\* C14: when tx.gas_price * 21000 or tx.value + fee exceeds the U256 range,
\* the balance check returns InsufficientBalance; it does not panic.
C14_OverflowIsInsufficientBalance ==
    (BalanceChecked /\ (FeeOf(call.args[2]) > U256_MAX \/ RequiredOf(call.args[2]) > U256_MAX))
        => call.result[1][1] = "InsufficientBalance"

\* C15: the balance check returns Ok exactly when the stored balance (0 for
\* an absent account) is at least tx.value + tx.gas_price * 21000, whatever
\* tx.gas_limit is, and InsufficientBalance{required = value + fee,
\* available = balance} otherwise.
C15_BalanceCheckExact ==
    BalanceChecked =>
        LET tx == call.args[2]
            balance == get_or_init_account(call.args[1], tx.from).balance
        IN  call.result[1] = IF balance >= RequiredOf(tx)
                             THEN Ok
                             ELSE <<"InsufficientBalance", RequiredOf(tx), balance>>

\* C16: the signature step accepts a transaction signed by the key of
\* tx.from over the hashed fields, and returns InvalidSignature once one of
\* the hashed fields (from, to, value, nonce, gas_price, timestamp,
\* boost_bid) was changed after signing.
C16_SignatureCoversHashedFields ==
    (call.fn = "verify_signature" /\ call.result # None) =>
        LET tx == call.args[1]
            signed == tx.signature.message
        IN  tx.signature.key = signed.from =>
              /\ (\A f \in HashedFields : tx[f] = signed[f]) => call.result[1] = Ok
              /\ (\E f \in HashedFields : tx[f] # signed[f]) =>
                    call.result[1] = <<"InvalidSignature">>

\* C17: can_add_transaction returns true exactly when the sum of gas_limit
\* over current_txs plus new_tx's gas_limit is at most max_gas_limit, for
\* every list of u64 gas limits, also when the sum exceeds the u64 range;
\* it neither panics nor wraps around.
C17_CanAddExact ==
    (call.fn = "can_add_transaction" /\ call.result # None) =>
        call.result[1] = IF total_gas(call.args[1]) + gas_limit(call.args[2]) <= max_gas_limit
                         THEN "yes" ELSE "no"

\* The first k of the drained normals, wrapped as Transaction::Normal.
NormalPrefix(normal_txs, k) == [i \in 1..k |-> Normal(normal_txs[i])]

\* The first k drained normals fit behind the accepted forced transactions.
PrefixFits(normal_txs, accepted_forced_txs, k) ==
    \A j \in 1..k :
        total_gas(accepted_forced_txs) + total_gas(NormalPrefix(normal_txs, j)) <= max_gas_limit

\* C18: the accepted normal transactions are the longest prefix of the
\* drained normals, in pool order, whose cumulative gas together with the
\* accepted forced transactions stays within max_gas_limit; nothing behind
\* the first normal that does not fit is accepted, even if it would fit.
C18_LongestFittingPrefix ==
    (call.fn = "filter_normal" /\ call.result # None) =>
        LET normal_txs == call.args[1]
            accepted_forced_txs == call.args[2]
            accepted_normal_txs == call.result[1].txs
            k == Len(accepted_normal_txs)
        IN  /\ ~call.result[1].panicked
            /\ k <= Len(normal_txs)
            /\ accepted_normal_txs = NormalPrefix(normal_txs, k)
            /\ PrefixFits(normal_txs, accepted_forced_txs, k)
            /\ k < Len(normal_txs) => ~PrefixFits(normal_txs, accepted_forced_txs, k + 1)

\* The loop stopped at the second of three normals although the third
\* would have fitted behind the first.
C18_Witness ==
    /\ call.fn = "filter_normal"
    /\ call.args[2] = <<>>
    /\ call.args[1] = <<[nonce |-> 1, gas_limit |-> 2], [nonce |-> 2, gas_limit |-> 2],
                        [nonce |-> 3, gas_limit |-> 1]>>
    /\ call.result = Some([txs |-> <<Normal([nonce |-> 1, gas_limit |-> 2])>>,
                           panicked |-> FALSE])

\* produce_batch has accepted no forced transaction and the pool holds no
\* normal transaction it can take: none at all, or a first one that does not
\* fit the gas limit.
NothingToSeal ==
    /\ orch.accepted_forced_txs = <<>>
    /\ \/ tx_pool = <<>>
       \/ max_batch_size = 0
       \/ tx_pool[1].gas_limit > max_gas_limit

\* The return of a produce_batch call: None without a seal when nothing was
\* accepted, otherwise a batch of at least one transaction.
C19_Step ==
    (orch.pc = "get_pending" /\ orch'.pc # "get_pending") =>
        IF NothingToSeal
        THEN /\ results' = Append(results, None)
             /\ next_batch_id' = next_batch_id
             /\ last_batch' = last_batch
        ELSE /\ results' = Append(results, Some(next_batch_id))
             /\ last_batch' # None
             /\ last_batch'[1].transactions # <<>>

\* Sealed batches are not empty, each seal advanced next_batch_id, and
\* nothing is sealed while no transaction has reached the queue or the pool.
C19_SealedNotEmpty ==
    /\ last_batch # None => Len(SealedTxs) >= 1
    /\ next_batch_id = 1 + Len(SealedIds)
    /\ (forced_added = 0 /\ \A a \in Addrs : accepted_nonces[a] = <<>>) =>
          last_batch = None /\ SealedIds = <<>>

\* C19: when no forced and no normal transaction is accepted, produce_batch
\* returns None, seals no batch and leaves next_batch_id unchanged; every
\* sealed batch holds at least one transaction, and an orchestrator that
\* never receives a transaction never seals a batch.
C19_NoEmptyBatch == [](C19_SealedNotEmpty) /\ [][C19_Step]_vars

\* A batch of one transaction was sealed, and the next call returned None.
C19_Witness ==
    /\ results = <<Some(1), None>>
    /\ next_batch_id = 2
    /\ Len(SealedTxs) = 1

\* ------------------------------------------------- the orchestrator's timer
\* The orchestrator loop with its clock: clock.now is Instant::now() in ms
\* since the loop started, clock.slept_since the start of the running sleep,
\* clock.calls the times at which produce_batch was invoked.

\* Amounts by which the time advances between two steps.
TickSteps == {50, 100}

\* Time passes, at any point of the loop or of produce_batch.
Tick(d) ==
    /\ clock.now + d <= MaxTime
    /\ clock' = [clock EXCEPT !.now = @ + d]
    /\ UNCHANGED <<accounts, tx_pool, forced_queue, next_batch_id, policy, adm, orch,
                   results, last_batch, accepted_nonces, forced_added, forced_sealed, call>>

\* tokio::time::sleep(100 ms) has completed: not before its duration is over.
sleep_completed(c) == c.now - c.slept_since >= PollInterval

\* Mutant: the timeout counts as expired on every poll.
timeout_expired_Always(c) == TRUE

\* orchestrator.rs start: last_batch_time.elapsed() >= timeout_duration
timeout_expired(c) == c.now - c.last_batch_time >= timeout_interval_ms

\* orchestrator.rs start: a poll on which the timeout has not expired; the
\* loop goes back to sleep.
PollIdle ==
    /\ orch.pc = "sleep"
    /\ sleep_completed(clock)
    /\ ~timeout_expired(clock)
    /\ clock' = [clock EXCEPT !.slept_since = clock.now]
    /\ UNCHANGED <<accounts, tx_pool, forced_queue, next_batch_id, policy, adm, orch,
                   results, last_batch, accepted_nonces, forced_added, forced_sealed, call>>

\* orchestrator.rs start: a poll on which the timeout has expired invokes
\* produce_batch, which runs up to its first await on the pool.
PollProduce ==
    /\ sleep_completed(clock)
    /\ timeout_expired(clock)
    /\ DrainForcedStep
    /\ clock' = [clock EXCEPT !.calls = Append(@, clock.now)]

\* orchestrator.rs start: produce_batch returns Ok(Some(batch)) or Ok(None);
\* both arms set last_batch_time = Instant::now(), and the loop sleeps again.
ProduceReturns ==
    /\ DrainPoolAndSealStep
    /\ clock' = [clock EXCEPT !.last_batch_time = clock.now, !.slept_since = clock.now]

TimerNext ==
    \/ \E d \in TickSteps : Tick(d)
    \/ \E gas \in ForcedGasLimits : AddForced(gas)
    \/ PollIdle
    \/ PollProduce
    \/ ProduceReturns

TimerSpec == Init /\ [][TimerNext]_vars

\* produce_batch is invoked only when the timeout has expired, and its
\* return sets last_batch_time to the time of the return.
C20_Step ==
    /\ Len(clock'.calls) > Len(clock.calls) =>
          /\ clock.now - clock.last_batch_time >= timeout_interval_ms
          /\ clock'.calls = Append(clock.calls, clock.now)
    /\ Len(results') > Len(results) =>
          /\ clock'.last_batch_time = clock.now
          /\ clock'.now = clock.now

\* Consecutive invocations of produce_batch are timeout_interval_ms apart,
\* and none is earlier than the last reset of the timer.
C20_CallsApart ==
    /\ \A i \in 1..(Len(clock.calls) - 1) :
          clock.calls[i + 1] - clock.calls[i] >= timeout_interval_ms
    /\ Len(clock.calls) = Len(results) + (IF orch.pc = "get_pending" THEN 1 ELSE 0)
    /\ (orch.pc = "sleep" /\ clock.calls # <<>>) =>
          clock.last_batch_time >= clock.calls[Len(clock.calls)]

ForcedSeq(txs) ==
    LET sel == OfKind(txs, "Forced") IN [i \in 1..Len(sel) |-> sel[i].l1_tx_hash]

\* The numbers of a sequence ascend: it is a subsequence of 1, 2, 3, ...
Ascending(ids) == \A i, j \in 1..Len(ids) : i < j => ids[i] < ids[j]

\* The forced queue as a list of Transaction::Forced.
WrappedQueue == [i \in 1..Len(forced_queue) |-> Forced(forced_queue[i])]

\* add appends; get_all hands the whole queue over, in order, and empties
\* it; a seal puts the accepted forced transactions into the batch in order.
C22_Step ==
    /\ forced_added' # forced_added =>
          /\ Len(forced_queue') = Len(forced_queue) + 1
          /\ SubSeq(forced_queue', 1, Len(forced_queue)) = forced_queue
          /\ forced_queue'[Len(forced_queue')].l1_tx_hash = forced_added'
    /\ (orch.pc = "sleep" /\ orch'.pc = "get_pending") =>
          /\ forced_queue' = <<>>
          /\ ForcedIds(orch'.accepted_forced_txs) \subseteq QueuedIds
          /\ total_gas(WrappedQueue) <= max_gas_limit =>
                orch'.accepted_forced_txs = WrappedQueue
    /\ (Len(results') > Len(results) /\ results'[Len(results')] # None) =>
          ForcedSeq(last_batch'[1].transactions) = ForcedSeq(orch.accepted_forced_txs)

\* The forced transactions sealed so far, those held by the running
\* produce_batch call and those waiting are each in the order of the add
\* calls, and one after the other in that order.
C22_InAddOrder ==
    /\ Ascending(ForcedSeq(WrappedQueue))
    /\ Ascending(ForcedSeq(orch.accepted_forced_txs))
    /\ last_batch # None => Ascending(ForcedSeq(SealedTxs))
    /\ \A held \in ForcedIds(orch.accepted_forced_txs) :
          /\ \A sealed \in forced_sealed : sealed < held
          /\ \A queued \in QueuedIds : held < queued
    /\ \A sealed \in forced_sealed : \A queued \in QueuedIds : sealed < queued
    /\ last_batch # None =>
          \A id \in ForcedIds(SealedTxs) :
              \A sealed \in forced_sealed \ ForcedIds(SealedTxs) : sealed < id

\* C22: forced transactions keep their insertion order: get_all returns the
\* whole queue in the order of the add calls and leaves it empty, and the
\* forced transactions of the sealed batches, read in batch order, are a
\* subsequence of the order in which they were added.
C22_ForcedKeepOrder == [](C22_InAddOrder) /\ [][C22_Step]_vars

\* Two batches were sealed: the first with two forced transactions in the
\* order they were added, the second with the one added after them.
C22_Witness ==
    /\ results = <<Some(1), Some(2)>>
    /\ forced_sealed = {1, 2, 3}
    /\ ForcedSeq(SealedTxs) = <<3>>

\* C23: get_pending(n) removes and returns the first min(n, len)
\* transactions of the pool in insertion order and leaves the others in the
\* pool in their order; get_pending(0) returns nothing and changes nothing.
C23_GetPendingTakesFront ==
    (call.fn = "get_pending" /\ call.result # None) =>
        LET pool == call.args[1]
            n == call.args[2]
            taken == IF n <= Len(pool) THEN n ELSE Len(pool)
            returned == call.result[1].returned
            left == call.result[1].transactions
        IN  /\ Len(returned) = taken
            /\ \A i \in 1..taken : returned[i] = pool[i]
            /\ Len(left) = Len(pool) - taken
            /\ \A i \in 1..Len(left) : left[i] = pool[taken + i]
            /\ n = 0 => returned = <<>> /\ left = pool

\* Two of three pooled transactions were asked for: the first two were
\* returned and the third stayed.
C23_Witness ==
    /\ call.fn = "get_pending"
    /\ call.args = << <<[nonce |-> 1, gas_limit |-> 1], [nonce |-> 2, gas_limit |-> 2],
                         [nonce |-> 3, gas_limit |-> 1]>>, 2 >>
    /\ call.result = Some([returned |-> <<[nonce |-> 1, gas_limit |-> 1],
                                           [nonce |-> 2, gas_limit |-> 2]>>,
                           transactions |-> <<[nonce |-> 3, gas_limit |-> 1]>>])

\* C24: schedule(forced, normal) returns the forced transactions in input
\* order wrapped as Forced, followed by policy.order_transactions(normal)
\* wrapped as Normal; no policy is applied to the forced transactions.
C24_ScheduleForcedThenOrdered ==
    (call.fn = "schedule" /\ call.result # None) =>
        LET forced == call.args[2]
            ordered_normal == order_transactions(call.args[1], call.args[3])
            result == call.result[1]
        IN  /\ Len(result) = Len(forced) + Len(call.args[3])
            /\ \A i \in 1..Len(forced) : result[i] = Forced(forced[i])
            /\ \A i \in 1..Len(ordered_normal) :
                  result[Len(forced) + i] = Normal(ordered_normal[i])

\* A fee-priority scheduler left two forced transactions in their input
\* order and put the normal transaction of the higher gas price first.
C24_Witness ==
    /\ call.fn = "schedule"
    /\ call.args[1] = "FeePriority"
    /\ call.result # None
    /\ Len(call.result[1]) = 4
    /\ ForcedSeq(call.result[1]) = <<2, 1>>
    /\ call.args[3][1].gas_price < call.args[3][2].gas_price
    /\ call.result[1][3] = Normal(call.args[3][2])
    /\ call.result[1][4] = Normal(call.args[3][1])

\* An order_transactions call of the policy of a policy type that has ended.
Ordered(policy_type) ==
    call.fn = "order_transactions" /\ call.args[1] = policy_type /\ call.result # None

\* The place of a transaction in the input list.
InputIndex(transactions, tx) == CHOOSE i \in 1..Len(transactions) : transactions[i] = tx

\* ordered holds the transactions of the input, each once, none placed
\* behind one it must precede, and ties in input order.
StablySorted(transactions, ordered, Precedes(_, _)) ==
    /\ Len(ordered) = Len(transactions)
    /\ {ordered[i] : i \in 1..Len(ordered)} = {transactions[i] : i \in 1..Len(transactions)}
    /\ \A i, j \in 1..Len(ordered) :
          i < j =>
             /\ ~Precedes(ordered[j], ordered[i])
             /\ ~Precedes(ordered[i], ordered[j]) =>
                   InputIndex(transactions, ordered[i]) < InputIndex(transactions, ordered[j])

\* C25: FcfsPolicy.order_transactions returns its input list unchanged,
\* whatever the gas prices and timestamps.
C25_FcfsUnchanged ==
    Ordered("Fcfs") => call.result[1] = call.args[2]

\* An FCFS call on three transactions that neither ascend in timestamp nor
\* descend in gas price.
C25_Witness ==
    /\ Ordered("Fcfs")
    /\ Len(call.args[2]) = 3
    /\ call.args[2][1].gas_price < call.args[2][2].gas_price
    /\ call.args[2][1].timestamp > call.args[2][3].timestamp
    /\ call.result[1] = call.args[2]

\* C26: FeePriorityPolicy.order_transactions returns the input sorted by
\* gas_price in non-increasing order; transactions of equal gas_price keep
\* their input order.
C26_FeePriorityStable ==
    Ordered("FeePriority") =>
        StablySorted(call.args[2], call.result[1],
                     LAMBDA a, b : a.gas_price > b.gas_price)

\* Gas prices 1, 2, 1 came out as the second, the first, the third.
C26_Witness ==
    /\ Ordered("FeePriority")
    /\ [i \in 1..Len(call.args[2]) |-> call.args[2][i].gas_price] = <<1, 2, 1>>
    /\ [i \in 1..Len(call.result[1]) |-> call.result[1][i].nonce] = <<2, 1, 3>>

\* C27: FairBftPolicy.order_transactions returns the input sorted by
\* timestamp in non-decreasing order; transactions of equal timestamp keep
\* their input order.
C27_FairBftStable ==
    Ordered("FairBft") =>
        StablySorted(call.args[2], call.result[1],
                     LAMBDA a, b : a.timestamp < b.timestamp)

\* Timestamps 2, 1, 2 came out as the second, the first, the third.
C27_Witness ==
    /\ Ordered("FairBft")
    /\ [i \in 1..Len(call.args[2]) |-> call.args[2][i].timestamp] = <<2, 1, 2>>
    /\ [i \in 1..Len(call.result[1]) |-> call.result[1][i].nonce] = <<2, 1, 3>>

\* The keys of the TimeBoost order: the window, the bid with a missing bid
\* counted as 0, the gas price.
WindowOf(tx) == tx.timestamp \div TimeWindow
BidOf(tx) == IF tx.boost_bid = None THEN 0 ELSE tx.boost_bid[1]

\* a must come before b: earlier window, else higher bid, else higher price.
TimeBoostPrecedes(a, b) ==
    \/ WindowOf(a) < WindowOf(b)
    \/ WindowOf(a) = WindowOf(b) /\ BidOf(a) > BidOf(b)
    \/ WindowOf(a) = WindowOf(b) /\ BidOf(a) = BidOf(b) /\ a.gas_price > b.gas_price

\* C28: TimeBoostPolicy.order_transactions returns the input sorted by
\* floor(timestamp / window_ms) ascending, then boost_bid descending with a
\* missing bid counted as 0, then gas_price descending; transactions equal
\* on the three keys keep their input order.
C28_TimeBoostStable ==
    Ordered("TimeBoost") =>
        StablySorted(call.args[2], call.result[1], TimeBoostPrecedes)

\* A later window came last, and within the earlier window the bid won over
\* the higher gas price.
C28_Witness ==
    /\ Ordered("TimeBoost")
    /\ call.args[2] = <<[nonce |-> 1, gas_price |-> 2, timestamp |-> 4, boost_bid |-> Some(1)],
                        [nonce |-> 2, gas_price |-> 2, timestamp |-> 1, boost_bid |-> None],
                        [nonce |-> 3, gas_price |-> 1, timestamp |-> 1, boost_bid |-> Some(1)]>>
    /\ [i \in 1..Len(call.result[1]) |-> call.result[1][i].nonce] = <<3, 2, 1>>

\* ---------------------------------------------------------- the state cache
\* The state cache under calls of its methods by the tasks that hold a clone
\* of it. Each method holds the lock of the map from its first to its last
\* access, a reader the read lock and a writer the write lock, so each call
\* is one step for every other task. call is the call that ended last.
OutsideCache == <<tx_pool, forced_queue, next_batch_id, policy, adm, orch, results,
                  last_batch, accepted_nonces, forced_added, forced_sealed, clock>>

\* Mutant: a read of an absent address stores the default account.
CacheRead_Inserts(address) ==
    /\ call' = [fn |-> "get_or_init_account", args |-> <<address>>,
                result |-> Some(AccountState(accounts, address))]
    /\ accounts' = [accounts EXCEPT ![address] = get_or_init_account(accounts, address)]
    /\ UNCHANGED OutsideCache

\* cache.rs StateCache::get_or_init_account, under the read lock
CacheRead(address) ==
    /\ call' = [fn |-> "get_or_init_account", args |-> <<address>>,
                result |-> Some(AccountState(accounts, address))]
    /\ UNCHANGED accounts
    /\ UNCHANGED OutsideCache

\* cache.rs StateCache::increment_nonce, under the write lock
CacheIncrement(address) ==
    /\ get_or_init_account(accounts, address).nonce < MaxNonce
    /\ accounts' = increment_nonce(accounts, address)
    /\ call' = [fn |-> "increment_nonce", args |-> <<address>>, result |-> None]
    /\ UNCHANGED OutsideCache

\* cache.rs StateCache::update, under the write lock
CacheUpdate(state) ==
    /\ accounts' = update(accounts, state)
    /\ call' = [fn |-> "update", args |-> <<state>>, result |-> None]
    /\ UNCHANGED OutsideCache

\* The account states an external source may hand to update.
SyncedStates == [address : Addrs, balance : {0, ADMISSION_GAS}, nonce : 0..MaxNonce]

CacheNext ==
    \/ \E address \in Addrs : CacheRead(address)
    \/ \E address \in Addrs : CacheIncrement(address)
    \/ \E state \in SyncedStates : CacheUpdate(state)

CacheSpec == Init /\ [][CacheNext]_vars

\* C29: get_or_init_account on an address absent from the cache returns
\* {address, balance 0, nonce 0} and leaves the cache unchanged, the address
\* still absent; an account appears in the map only through increment_nonce
\* or update of its address.
C29_ReadInsertsNothing ==
    [][ /\ \A address \in Addrs :
             CacheRead(address) =>
                /\ accounts' = accounts
                /\ ~accounts[address].present =>
                      /\ call'.result = Some([address |-> address, balance |-> 0, nonce |-> 0])
                      /\ ~accounts'[address].present
        /\ \A address \in Addrs :
             (~accounts[address].present /\ accounts'[address].present) =>
                \/ call'.fn = "increment_nonce" /\ call'.args = <<address>>
                \/ call'.fn = "update" /\ call'.args[1].address = address ]_vars

\* The default account was returned for an address that is still absent.
C29_Witness ==
    /\ call = [fn |-> "get_or_init_account", args |-> <<"a2">>,
               result |-> Some([address |-> "a2", balance |-> 0, nonce |-> 0])]
    /\ ~accounts["a2"].present

\* C30: increment_nonce raises the nonce of a present account by exactly 1
\* and leaves its balance; on an absent address it inserts {balance 0,
\* nonce 1}; it changes no other account; a reader is returned the stored
\* account of before or of after a call, none in between.
C30_IncrementNonceExact ==
    [][ /\ \A address \in Addrs :
             CacheIncrement(address) =>
                /\ accounts'[address].present
                /\ accounts'[address].nonce =
                      (IF accounts[address].present THEN accounts[address].nonce ELSE 0) + 1
                /\ accounts'[address].balance =
                      (IF accounts[address].present THEN accounts[address].balance ELSE 0)
                /\ \A other \in Addrs \ {address} : accounts'[other] = accounts[other]
        /\ \A address \in Addrs :
             CacheRead(address) =>
                /\ accounts[address].present =>
                      /\ call'.result[1].nonce = accounts[address].nonce
                      /\ call'.result[1].balance = accounts[address].balance
                /\ accounts'[address] = accounts[address] ]_vars

\* The funded account was incremented and kept its balance, after the
\* absent one was inserted with nonce 1.
C30_Witness ==
    /\ call = [fn |-> "increment_nonce", args |-> <<"a1">>, result |-> None]
    /\ accounts["a1"] = [present |-> TRUE, balance |-> FundedBalance, nonce |-> 1]
    /\ accounts["a2"] = [present |-> TRUE, balance |-> 0, nonce |-> 1]

\* C31: for every account the nonce stored in the state cache never
\* decreases over any sequence of get_or_init_account, increment_nonce and
\* update calls, and it changes only through the increment_nonce of the
\* admission path.
C31_NonceNeverDecreases ==
    [][ \A address \in Addrs :
          LET before == get_or_init_account(accounts, address).nonce
              after == get_or_init_account(accounts', address).nonce
          IN  /\ after >= before
              /\ after # before =>
                    call'.fn = "increment_nonce" /\ call'.args = <<address>> ]_vars

\* ------------------------------------------------------------- the registry
\* policies.rs SchedulingPolicy::name of the policy of a policy type
name(policy_type) ==
    CASE policy_type = "Fcfs" -> "FCFS"
      [] policy_type = "FeePriority" -> "FeePriority"
      [] policy_type = "TimeBoost" -> "TimeBoost"
      [] policy_type = "FairBft" -> "FairBFT"

\* orchestrator.rs start, the Ok(Some(batch)) arm: the BatchMetadata the loop
\* emits for a sealed batch. The arm logs the batch and resets the timer; it
\* builds no BatchMetadata and calls no Registry::store, so there is none.
emitted_metadata(batch) == None

\* C32: on each seal the orchestrator emits, with the Batch, a BatchMetadata
\* whose batch_id is the batch's id, whose tx_count is the batch length,
\* whose forced_tx_count is the number of Forced entries and whose
\* scheduling_policy is the name of the selected policy.
C32_SealEmitsMetadata ==
    last_batch # None =>
        emitted_metadata(last_batch[1]) =
            Some([batch_id |-> last_batch[1].batch_id,
                  tx_count |-> Len(SealedTxs),
                  forced_tx_count |-> Len(OfKind(SealedTxs, "Forced")),
                  scheduling_policy |-> name(policy)])

\* C33: the pool the admission path pushes into is the same instance as the
\* pool the orchestrator drains, so that a transaction pushed by an Accepted
\* admission is returned by a later drain of the orchestrator.
C33_SamePoolInstance ==
    (call.fn = "startup" /\ call.result # None) =>
        call.result[1].server.tx_pool = call.result[1].orchestrator.tx_pool

\* C34: admission rejects every transaction whose gas_limit exceeds
\* max_gas_limit: no such transaction passes validation, and the pool never
\* holds a transaction that can fit in no batch.
C34_OversizedRejected ==
    /\ \A p \in Procs :
          adm[p].pc \in {"increment_nonce", "pool_add"} =>
              adm[p].tx[1].gas_limit <= max_gas_limit
    /\ \A i \in 1..Len(tx_pool) : tx_pool[i].gas_limit <= max_gas_limit

C36_DrainBound ==
    [][ (orch.pc = "get_pending" /\ orch'.pc # "get_pending") =>
          LET accepted_forced == Len(orch.accepted_forced_txs)
              room == IF max_batch_size - accepted_forced > 0
                      THEN max_batch_size - accepted_forced ELSE 0
              drained == Len(tx_pool) - Len(tx_pool')
          IN  /\ drained >= 0
              /\ drained <= room
              /\ tx_pool' = SubSeq(tx_pool, drained + 1, Len(tx_pool))
              /\ accepted_forced >= max_batch_size => tx_pool' = tx_pool ]_vars

\* A batch of max_batch_size forced transactions and no normal one has been
\* sealed while a transaction accepted before the drain is still in the pool.
C36_Witness ==
    /\ last_batch # None
    /\ Len(OfKind(SealedTxs, "Forced")) = max_batch_size
    /\ OfKind(SealedTxs, "Normal") = <<>>
    /\ Len(results) = 1
    /\ tx_pool # <<>>
    /\ \A p \in Procs : adm[p].pc = "returned"

\* C37: no accepted user transaction is lost: every transaction that
\* produce_batch takes out of the pool is in the batch it seals, so that an
\* accepted transaction is either still in the pool or in exactly one sealed
\* batch, also when the gas gate did not accept it.
C37_NoAcceptedLost ==
    [][ (orch.pc = "get_pending" /\ orch'.pc # "get_pending") =>
          LET drained == SubSeq(tx_pool, 1, Len(tx_pool) - Len(tx_pool'))
              sealed == IF next_batch_id' # next_batch_id
                        THEN OfKind(last_batch'[1].transactions, "Normal")
                        ELSE <<>>
          IN  drained = sealed ]_vars

\* The last sealed batch holds no transaction twice, and none of its
\* transactions is still in the pool or in the forced queue.
C38_Once ==
    last_batch # None =>
        /\ \A i, j \in 1..Len(SealedTxs) : i # j => SealedTxs[i] # SealedTxs[j]
        /\ \A i \in 1..Len(SealedTxs), k \in 1..Len(tx_pool) :
              SealedTxs[i] # Normal(tx_pool[k])
        /\ ForcedIds(SealedTxs) \cap QueuedIds = {}

\* A seal takes in no forced transaction of an earlier batch, and the drain
\* of the pool removes exactly the front of the pool.
C38_Step ==
    (orch.pc = "get_pending" /\ orch'.pc # "get_pending") =>
        /\ next_batch_id' # next_batch_id =>
              ForcedIds(last_batch'[1].transactions) \cap forced_sealed = {}
        /\ tx_pool' = SubSeq(tx_pool, Len(tx_pool) - Len(tx_pool') + 1, Len(tx_pool))

\* C38: under any interleaving of admission pushes, listener adds and
\* orchestrator drains, no transaction appears in two sealed batches or
\* twice in one batch, and none is at once in a sealed batch and still in
\* its queue; each drain removes what it returns in one step.
C38_NoDuplicates == [](C38_Once) /\ [][C38_Step]_vars

\* C39: for every sender, its transactions sit in the pool in increasing
\* nonce order, and so, under FCFS, the Normal entries of a sealed batch
\* carry increasing nonces per sender, also when admissions of the same
\* sender run concurrently.
C39_NonceOrder ==
    /\ \A i, j \in 1..Len(tx_pool) :
          (i < j /\ tx_pool[i].from = tx_pool[j].from) =>
              tx_pool[i].nonce < tx_pool[j].nonce
    /\ last_batch # None =>
          LET normals == OfKind(SealedTxs, "Normal") IN
          \A i, j \in 1..Len(normals) :
              (i < j /\ normals[i].from = normals[j].from) =>
                  normals[i].nonce < normals[j].nonce

\* C40: for each of the four policies order_transactions returns a
\* permutation of its input: the same transactions, each as many times as in
\* the input. An empty list gives an empty list and a list of one
\* transaction gives that list.
C40_Permutation ==
    (call.fn = "order_transactions" /\ call.result # None) =>
        LET transactions == call.args[2]
            ordered == call.result[1]
            Count(txs, tx) == Cardinality({i \in 1..Len(txs) : txs[i] = tx})
        IN  /\ Len(ordered) = Len(transactions)
            /\ \A i \in 1..Len(transactions) :
                  Count(ordered, transactions[i]) = Count(transactions, transactions[i])
            /\ Len(transactions) <= 1 => ordered = transactions

\* A policy that sorts has returned three transactions in another order than
\* it was given them, two of them tied.
C40_Witness ==
    /\ call.fn = "order_transactions"
    /\ call.args[1] = "FeePriority"
    /\ call.result # None
    /\ Len(call.args[2]) = 3
    /\ call.args[2][1].gas_price < call.args[2][2].gas_price
    /\ call.args[2][2].gas_price = call.args[2][3].gas_price
    /\ call.result[1] # call.args[2]
    /\ Len(call.result[1]) = 3

====
